---- MODULE Spec2Model ----
(***************************************************************************)
(* Model of the double-ended rolling hash of mdacach/rolling_hash_rust:    *)
(* the Modular<MOD> primitive (src/src/modular.rs) and the RollingHash     *)
(* engine (src/src/lib.rs).                                                *)
(*                                                                         *)
(* A u64 is held as its eight little-endian bytes, because the products    *)
(* the code forms (up to MOD^2, about 2^60) do not fit the integers of the *)
(* model checker.  Every sum, difference and product is computed exactly   *)
(* on the bytes; the bytes beyond the eighth tell whether the u64          *)
(* operation overflowed, and the low eight bytes are the wrapped result.   *)
(***************************************************************************)
EXTENDS Integers, Sequences, FiniteSets, TLC

\* ------------------------------------------------------------------------
\* Program constants
\* ------------------------------------------------------------------------
BIG_PRIME == 1000000007

BASE == 257

\* ------------------------------------------------------------------------
\* Bounds of the model
\* ------------------------------------------------------------------------
\* longest window the push actions build
MaxLen == 3

\* the bytes the actions push
Bytes == {0, 69, 255}

\* largest exponent fast_exponentiation is called with
MaxExponent == 16

\* longest slice a batch construction is given
MaxInput == 3

\* ------------------------------------------------------------------------
\* u64 arithmetic on little-endian byte sequences
\* ------------------------------------------------------------------------
Radix == 2^8

U64Bytes == 64 \div 8

\* the u64 holding the integer n (0 <= n < 2^31)
U64(n) ==
    << n % Radix, (n \div Radix) % Radix, (n \div (Radix * Radix)) % Radix,
       (n \div (Radix * Radix * Radix)) % Radix, 0, 0, 0, 0 >>

\* the low eight bytes of an exact result: the value a wrapping u64 keeps
Wrap64(w) == SubSeq(w, 1, U64Bytes)

\* an exact result has a nonzero byte beyond the eighth: it is >= 2^64
\* (for a difference: the borrow out of the eighth byte, it is < 0)
Over64(w) == \E i \in (U64Bytes + 1)..Len(w) : w[i] # 0

\* exact a + b of two u64, nine bytes: s[i] is the sum of the bytes i and
\* the carry into them
WAdd(a, b) ==
    LET s1 == a[1] + b[1]
        s2 == a[2] + b[2] + (s1 \div Radix)
        s3 == a[3] + b[3] + (s2 \div Radix)
        s4 == a[4] + b[4] + (s3 \div Radix)
        s5 == a[5] + b[5] + (s4 \div Radix)
        s6 == a[6] + b[6] + (s5 \div Radix)
        s7 == a[7] + b[7] + (s6 \div Radix)
        s8 == a[8] + b[8] + (s7 \div Radix)
    IN  << s1 % Radix, s2 % Radix, s3 % Radix, s4 % Radix, s5 % Radix,
           s6 % Radix, s7 % Radix, s8 % Radix, s8 \div Radix >>

\* the borrow out of a byte difference d
Borrow(d) == IF d < 0 THEN 1 ELSE 0

\* a - b of two u64: eight bytes of the wrapped difference, then the borrow
\* (1 when b > a, the case in which the u64 subtraction underflows)
WSub(a, b) ==
    LET d1 == a[1] - b[1]
        d2 == a[2] - b[2] - Borrow(d1)
        d3 == a[3] - b[3] - Borrow(d2)
        d4 == a[4] - b[4] - Borrow(d3)
        d5 == a[5] - b[5] - Borrow(d4)
        d6 == a[6] - b[6] - Borrow(d5)
        d7 == a[7] - b[7] - Borrow(d6)
        d8 == a[8] - b[8] - Borrow(d7)
    IN  << (d1 + Radix) % Radix, (d2 + Radix) % Radix, (d3 + Radix) % Radix,
           (d4 + Radix) % Radix, (d5 + Radix) % Radix, (d6 + Radix) % Radix,
           (d7 + Radix) % Radix, (d8 + Radix) % Radix, Borrow(d8) >>

\* index of the most significant nonzero byte of w, 0 when w is zero
SigLen(w) ==
    LET nz == {i \in 1..Len(w) : w[i] # 0}
    IN  IF nz = {} THEN 0 ELSE CHOOSE i \in nz : \A j \in nz : j <= i

RECURSIVE ColLoop(_, _, _, _, _)
\* the sum of the byte products a[i] * b[k + 1 - i] of column k of a * b,
\* for i from l.i to hi
ColLoop(a, b, k, hi, l) ==
    IF l.i > hi THEN l.sum
    ELSE ColLoop(a, b, k, hi,
                 [i |-> l.i + 1, sum |-> l.sum + a[l.i] * b[k + 1 - l.i]])

RECURSIVE MulLoop(_, _, _, _, _)
\* the bytes of a * b column by column, from column l.k with carry l.c;
\* la and lb are the numbers of significant bytes of a and b (the byte
\* products beyond them are zero)
MulLoop(a, b, la, lb, l) ==
    IF l.k > la + lb THEN l.d
    ELSE MulLoop(a, b, la, lb,
             LET lo == IF l.k + 1 - lb > 1 THEN l.k + 1 - lb ELSE 1
                 hi == IF l.k < la THEN l.k ELSE la
                 s  == ColLoop(a, b, l.k, hi, [i |-> lo, sum |-> l.c])
             IN  [k |-> l.k + 1, c |-> s \div Radix,
                  d |-> Append(l.d, s % Radix)])

\* exact a * b of two u64: sixteen bytes
WMul(a, b) ==
    LET la == SigLen(a)
        lb == SigLen(b)
    IN  MulLoop(a, b, la, lb, [k |-> 1, c |-> 0, d |-> <<>>])
        \o [i \in 1..(2 * U64Bytes - la - lb) |-> 0]

\* r * 2^8 mod m, for r < m <= 2^30, by doubling
Times256(r, m) ==
    LET d1 == (2 * r) % m
        d2 == (2 * d1) % m
        d3 == (2 * d2) % m
        d4 == (2 * d3) % m
        d5 == (2 * d4) % m
        d6 == (2 * d5) % m
        d7 == (2 * d6) % m
    IN  (2 * d7) % m

RECURSIVE ModLoop(_, _, _)
\* the remainder mod m of the number held by the bytes of w from the most
\* significant down to byte l.i, given the remainder l.r of those above
ModLoop(w, m, l) ==
    IF l.i = 0 THEN l.r
    ELSE ModLoop(w, m, [i |-> l.i - 1,
                        r |-> (Times256(l.r, m) + w[l.i]) % m])

\* w % m as a u64, for a u64 w and a modulus m <= 2^30
WMod(w, m) == U64(ModLoop(w, m, [i |-> SigLen(w), r |-> 0]))

\* a > b on two u64
WGreater(a, b) ==
    \E i \in 1..U64Bytes :
        /\ a[i] > b[i]
        /\ \A j \in (i + 1)..U64Bytes : a[j] = b[j]

\* ------------------------------------------------------------------------
\* Modular<MOD> (src/src/modular.rs).  A Modular is modelled by its field
\* `value`, a u64.  Every operator returns [value, ovf]: the wrapped u64
\* result and whether a u64 sum, difference or product inside it left the
\* range of u64 (a panic when overflow checks are compiled in, a silent
\* wraparound otherwise).  m is the const parameter MOD.
\* ------------------------------------------------------------------------
from_u64(m, number) == WMod(number, m)

\* impl Add for Modular: (self.value + rhs.value) % MOD
Add(m, self, rhs) ==
    LET s == WAdd(self, rhs)
    IN  [value |-> WMod(Wrap64(s), m), ovf |-> Over64(s)]

\* impl Add<u64> for Modular: (self.value + rhs) % MOD
AddU64(m, self, rhs) ==
    LET s == WAdd(self, rhs)
    IN  [value |-> WMod(Wrap64(s), m), ovf |-> Over64(s)]

\* impl Mul for Modular: (self.value * rhs.value) % MOD
Mul(m, self, rhs) ==
    LET p == WMul(self, rhs)
    IN  [value |-> WMod(Wrap64(p), m), ovf |-> Over64(p)]

\* impl Mul<u64> for Modular: (self.value * rhs) % MOD
MulU64(m, self, rhs) ==
    LET p == WMul(self, rhs)
    IN  [value |-> WMod(Wrap64(p), m), ovf |-> Over64(p)]

\* Sub without the `value += MOD` of the case rhs.value > self.value
Sub_NoAddMod(m, self, rhs) ==
    LET d == WSub(self, rhs)
    IN  [value |-> Wrap64(d), ovf |-> Over64(d)]

\* impl Sub for Modular: value += MOD when rhs.value > self.value, then
\* value -= rhs.value; the result is not reduced
Sub(m, self, rhs) ==
    LET v1 == IF WGreater(rhs, self) THEN WAdd(self, U64(m))
                                     ELSE self \o <<0>>
        d  == WSub(Wrap64(v1), rhs)
    IN  [value |-> Wrap64(d), ovf |-> Over64(v1) \/ Over64(d)]

\* impl Sub<u64> for Modular: the same statements on a raw u64
SubU64(m, self, rhs) ==
    LET v1 == IF WGreater(rhs, self) THEN WAdd(self, U64(m))
                                     ELSE self \o <<0>>
        d  == WSub(Wrap64(v1), rhs)
    IN  [value |-> Wrap64(d), ovf |-> Over64(v1) \/ Over64(d)]

\* the loop body without `base %= MOD`
ExpStep_NoBaseReduce(m, l) ==
    LET is_last_bit_on == (l.exponent % 2) = 1
        r == WMul(l.result, l.base)
        b == WMul(l.base, l.base)
    IN  [base     |-> Wrap64(b),
         exponent |-> l.exponent \div 2,
         result   |-> IF is_last_bit_on THEN WMod(Wrap64(r), m)
                                        ELSE l.result,
         ovf      |-> l.ovf \/ (is_last_bit_on /\ Over64(r)) \/ Over64(b)]

\* the loop body multiplying result by base whatever the last bit is
ExpStep_AlwaysMultiply(m, l) ==
    LET r == WMul(l.result, l.base)
        b == WMul(l.base, l.base)
    IN  [base     |-> WMod(Wrap64(b), m),
         exponent |-> l.exponent \div 2,
         result   |-> WMod(Wrap64(r), m),
         ovf      |-> l.ovf \/ Over64(r) \/ Over64(b)]

\* one pass of the while loop of fast_exponentiation over its locals
\* (exponent is kept as an integer: exponent & 1 is exponent % 2 and
\* exponent >>= 1 is exponent \div 2)
ExpStep(m, l) ==
    LET is_last_bit_on == (l.exponent % 2) = 1
        r == WMul(l.result, l.base)
        b == WMul(l.base, l.base)
    IN  [base     |-> WMod(Wrap64(b), m),
         exponent |-> l.exponent \div 2,
         result   |-> IF is_last_bit_on THEN WMod(Wrap64(r), m)
                                        ELSE l.result,
         ovf      |-> l.ovf \/ (is_last_bit_on /\ Over64(r)) \/ Over64(b)]

RECURSIVE ExpLoop(_, _)
ExpLoop(m, l) ==
    IF l.exponent = 0 THEN l ELSE ExpLoop(m, ExpStep(m, l))

fast_exponentiation(m, base, exponent) ==
    LET l == ExpLoop(m, [base |-> base, exponent |-> exponent,
                         result |-> U64(1), ovf |-> FALSE])
    IN  [value |-> l.result, ovf |-> l.ovf]

\* fast_exponentiation(number, MOD - 2)
find_modular_inverse(m, number) == fast_exponentiation(m, number, m - 2)

\* impl Div for Modular: (self * inverse).value, inverse a u64
Div(m, self, rhs) ==
    LET inverse == find_modular_inverse(m, rhs)
        q       == MulU64(m, self, inverse.value)
    IN  [value |-> q.value, ovf |-> inverse.ovf \/ q.ovf]

\* impl Div<u64> for Modular
DivU64(m, self, rhs) ==
    LET inverse == find_modular_inverse(m, rhs)
        q       == MulU64(m, self, inverse.value)
    IN  [value |-> q.value, ovf |-> inverse.ovf \/ q.ovf]

\* ------------------------------------------------------------------------
\* RollingHash (src/src/lib.rs).  An engine is the record of its three
\* fields; current_bytes and base_powers are sequences indexed from 1, so
\* base_powers[k] of the code is base_powers[k + 1] here.  Every operation
\* returns [rh, ovf, fault]: the engine after the call, whether u64
\* arithmetic inside the call left the range of u64, and the panic that
\* does not depend on the build ("index": index out of bounds, "unwrap":
\* unwrap of None, "none").
\* ------------------------------------------------------------------------
\* new() with the power table started at BASE^1
New_PowerBase ==
    [current_bytes |-> <<>>,
     current_hash  |-> from_u64(BIG_PRIME, U64(0)),
     base_powers   |-> <<from_u64(BIG_PRIME, U64(BASE))>>]

New ==
    [current_bytes |-> <<>>,
     current_hash  |-> from_u64(BIG_PRIME, U64(0)),
     base_powers   |-> <<from_u64(BIG_PRIME, U64(1))>>]

RECURSIVE GrowPowers(_, _)
\* the loop `for _ in 0..needed` of update_base_powers on base_powers
GrowPowers(g, needed) ==
    IF needed = 0 \/ g.fault # "none" THEN g
    ELSE IF Len(g.base_powers) = 0
         THEN [g EXCEPT !.fault = "unwrap"]
    ELSE LET last_power == g.base_powers[Len(g.base_powers)]
             next_power == MulU64(BIG_PRIME, last_power, U64(BASE))
         IN  GrowPowers([base_powers |-> Append(g.base_powers,
                                                next_power.value),
                         ovf   |-> g.ovf \/ next_power.ovf,
                         fault |-> "none"],
                        needed - 1)

\* update_base_powers growing only when content_len > powers_len
update_base_powers_Strict(rh) ==
    LET current_content_len     == Len(rh.current_bytes)
        current_base_powers_len == Len(rh.base_powers)
        needed == current_content_len - current_base_powers_len + 1
        g == IF current_content_len > current_base_powers_len
             THEN GrowPowers([base_powers |-> rh.base_powers,
                              ovf |-> FALSE, fault |-> "none"], needed)
             ELSE [base_powers |-> rh.base_powers,
                   ovf |-> FALSE, fault |-> "none"]
    IN  [rh    |-> [rh EXCEPT !.base_powers = g.base_powers],
         ovf   |-> g.ovf,
         fault |-> g.fault]

\* update_base_powers with needed = content_len - powers_len, one short
update_base_powers_NoPlusOne(rh) ==
    LET current_content_len     == Len(rh.current_bytes)
        current_base_powers_len == Len(rh.base_powers)
        needed == current_content_len - current_base_powers_len
        g == IF current_content_len >= current_base_powers_len
             THEN GrowPowers([base_powers |-> rh.base_powers,
                              ovf |-> FALSE, fault |-> "none"], needed)
             ELSE [base_powers |-> rh.base_powers,
                   ovf |-> FALSE, fault |-> "none"]
    IN  [rh    |-> [rh EXCEPT !.base_powers = g.base_powers],
         ovf   |-> g.ovf,
         fault |-> g.fault]

\* update_base_powers with needed = content_len + 1, the table length
\* not subtracted
update_base_powers_NeededFromLen(rh) ==
    LET current_content_len     == Len(rh.current_bytes)
        current_base_powers_len == Len(rh.base_powers)
        needed == current_content_len + 1
        g == IF current_content_len >= current_base_powers_len
             THEN GrowPowers([base_powers |-> rh.base_powers,
                              ovf |-> FALSE, fault |-> "none"], needed)
             ELSE [base_powers |-> rh.base_powers,
                   ovf |-> FALSE, fault |-> "none"]
    IN  [rh    |-> [rh EXCEPT !.base_powers = g.base_powers],
         ovf   |-> g.ovf,
         fault |-> g.fault]

update_base_powers(rh) ==
    LET current_content_len     == Len(rh.current_bytes)
        current_base_powers_len == Len(rh.base_powers)
        needed == current_content_len - current_base_powers_len + 1
        g == IF current_content_len >= current_base_powers_len
             THEN GrowPowers([base_powers |-> rh.base_powers,
                              ovf |-> FALSE, fault |-> "none"], needed)
             ELSE [base_powers |-> rh.base_powers,
                   ovf |-> FALSE, fault |-> "none"]
    IN  [rh    |-> [rh EXCEPT !.base_powers = g.base_powers],
         ovf   |-> g.ovf,
         fault |-> g.fault]

\* push_back adding the byte before multiplying by BASE
push_back_AddFirst(rh, b) ==
    LET h1 == AddU64(BIG_PRIME, rh.current_hash, U64(b))
        h2 == MulU64(BIG_PRIME, h1.value, U64(BASE))
        u  == update_base_powers(
                  [rh EXCEPT !.current_bytes = Append(@, b),
                             !.current_hash  = h2.value])
    IN  [rh |-> u.rh, ovf |-> h1.ovf \/ h2.ovf \/ u.ovf, fault |-> u.fault]

\* push_back without `current_hash + b`
push_back_NoAdd(rh, b) ==
    LET h1 == MulU64(BIG_PRIME, rh.current_hash, U64(BASE))
        u  == update_base_powers(
                  [rh EXCEPT !.current_bytes = Append(@, b),
                             !.current_hash  = h1.value])
    IN  [rh |-> u.rh, ovf |-> h1.ovf \/ u.ovf, fault |-> u.fault]

push_back(rh, b) ==
    LET h1 == MulU64(BIG_PRIME, rh.current_hash, U64(BASE))
        h2 == AddU64(BIG_PRIME, h1.value, U64(b))
        u  == update_base_powers(
                  [rh EXCEPT !.current_bytes = Append(@, b),
                             !.current_hash  = h2.value])
    IN  [rh |-> u.rh, ovf |-> h1.ovf \/ h2.ovf \/ u.ovf, fault |-> u.fault]

\* pop_front without the test for an empty window: front() is None and
\* its unwrap panics
pop_front_NoEmptyCheck(rh) ==
    IF rh.current_bytes = <<>>
    THEN [rh |-> rh, ovf |-> FALSE, fault |-> "unwrap"]
    ELSE LET front_byte == Head(rh.current_bytes)
             len        == Len(rh.current_bytes)
         IN  IF len > Len(rh.base_powers)
             THEN [rh |-> rh, ovf |-> FALSE, fault |-> "index"]
             ELSE LET factor       == rh.base_powers[len]
                      contribution == MulU64(BIG_PRIME, factor,
                                             U64(front_byte))
                      h == Sub(BIG_PRIME, rh.current_hash,
                               contribution.value)
                  IN  [rh |-> [rh EXCEPT !.current_hash  = h.value,
                                         !.current_bytes = Tail(@)],
                       ovf   |-> contribution.ovf \/ h.ovf,
                       fault |-> "none"]

\* pop_front reading base_powers[len] where the code reads [len - 1]
pop_front_WrongWeight(rh) ==
    IF rh.current_bytes = <<>>
    THEN [rh |-> rh, ovf |-> FALSE, fault |-> "none"]
    ELSE LET front_byte == Head(rh.current_bytes)
             len        == Len(rh.current_bytes)
         IN  IF len + 1 > Len(rh.base_powers)
             THEN [rh |-> rh, ovf |-> FALSE, fault |-> "index"]
             ELSE LET factor       == rh.base_powers[len + 1]
                      contribution == MulU64(BIG_PRIME, factor,
                                             U64(front_byte))
                      h == Sub(BIG_PRIME, rh.current_hash,
                               contribution.value)
                  IN  [rh |-> [rh EXCEPT !.current_hash  = h.value,
                                         !.current_bytes = Tail(@)],
                       ovf   |-> contribution.ovf \/ h.ovf,
                       fault |-> "none"]

pop_front(rh) ==
    IF rh.current_bytes = <<>>
    THEN [rh |-> rh, ovf |-> FALSE, fault |-> "none"]
    ELSE LET front_byte == Head(rh.current_bytes)
             len        == Len(rh.current_bytes)
         IN  IF len > Len(rh.base_powers)
             THEN [rh |-> rh, ovf |-> FALSE, fault |-> "index"]
             ELSE LET factor       == rh.base_powers[len]
                      contribution == MulU64(BIG_PRIME, factor,
                                             U64(front_byte))
                      h == Sub(BIG_PRIME, rh.current_hash,
                               contribution.value)
                  IN  [rh |-> [rh EXCEPT !.current_hash  = h.value,
                                         !.current_bytes = Tail(@)],
                       ovf   |-> contribution.ovf \/ h.ovf,
                       fault |-> "none"]

\* pop_back without the division by BASE
pop_back_NoDivide(rh) ==
    IF rh.current_bytes = <<>>
    THEN [rh |-> rh, ovf |-> FALSE, fault |-> "none"]
    ELSE LET back_byte    == rh.current_bytes[Len(rh.current_bytes)]
             contribution == U64(back_byte)
             h1 == SubU64(BIG_PRIME, rh.current_hash, contribution)
         IN  [rh |-> [rh EXCEPT
                        !.current_hash  = h1.value,
                        !.current_bytes = SubSeq(@, 1, Len(@) - 1)],
              ovf   |-> h1.ovf,
              fault |-> "none"]

\* pop_back also truncating base_powers to the entries the shorter window
\* needs
pop_back_ShrinkPowers(rh) ==
    IF rh.current_bytes = <<>>
    THEN [rh |-> rh, ovf |-> FALSE, fault |-> "none"]
    ELSE LET back_byte    == rh.current_bytes[Len(rh.current_bytes)]
             contribution == U64(back_byte)
             h1 == SubU64(BIG_PRIME, rh.current_hash, contribution)
             h2 == DivU64(BIG_PRIME, h1.value, U64(BASE))
         IN  [rh |-> [rh EXCEPT
                        !.current_hash  = h2.value,
                        !.current_bytes = SubSeq(@, 1, Len(@) - 1),
                        !.base_powers   =
                            SubSeq(@, 1, Len(rh.current_bytes))],
              ovf   |-> h1.ovf \/ h2.ovf,
              fault |-> "none"]

pop_back(rh) ==
    IF rh.current_bytes = <<>>
    THEN [rh |-> rh, ovf |-> FALSE, fault |-> "none"]
    ELSE LET back_byte    == rh.current_bytes[Len(rh.current_bytes)]
             contribution == U64(back_byte)
             h1 == SubU64(BIG_PRIME, rh.current_hash, contribution)
             h2 == DivU64(BIG_PRIME, h1.value, U64(BASE))
         IN  [rh |-> [rh EXCEPT
                        !.current_hash  = h2.value,
                        !.current_bytes = SubSeq(@, 1, Len(@) - 1)],
              ovf   |-> h1.ovf \/ h2.ovf,
              fault |-> "none"]

\* push_front adding the byte without its weight base_powers[len]
push_front_NoWeight(rh, b) ==
    LET len == Len(rh.current_bytes)
    IN  IF len + 1 > Len(rh.base_powers)
        THEN [rh |-> rh, ovf |-> FALSE, fault |-> "index"]
        ELSE LET h == AddU64(BIG_PRIME, rh.current_hash, U64(b))
                 u == update_base_powers(
                          [rh EXCEPT !.current_hash  = h.value,
                                     !.current_bytes = <<b>> \o @])
             IN  [rh    |-> u.rh,
                  ovf   |-> h.ovf \/ u.ovf,
                  fault |-> u.fault]

\* push_front putting the byte at the back of the window
push_front_AtBack(rh, b) ==
    LET len == Len(rh.current_bytes)
    IN  IF len + 1 > Len(rh.base_powers)
        THEN [rh |-> rh, ovf |-> FALSE, fault |-> "index"]
        ELSE LET factor       == rh.base_powers[len + 1]
                 contribution == MulU64(BIG_PRIME, factor, U64(b))
                 h == Add(BIG_PRIME, rh.current_hash, contribution.value)
                 u == update_base_powers(
                          [rh EXCEPT !.current_hash  = h.value,
                                     !.current_bytes = Append(@, b)])
             IN  [rh    |-> u.rh,
                  ovf   |-> contribution.ovf \/ h.ovf \/ u.ovf,
                  fault |-> u.fault]

\* push_front weighting the hash, not the byte, by base_powers[len]
push_front_ShiftHash(rh, b) ==
    LET len == Len(rh.current_bytes)
    IN  IF len + 1 > Len(rh.base_powers)
        THEN [rh |-> rh, ovf |-> FALSE, fault |-> "index"]
        ELSE LET factor  == rh.base_powers[len + 1]
                 shifted == Mul(BIG_PRIME, rh.current_hash, factor)
                 h == AddU64(BIG_PRIME, shifted.value, U64(b))
                 u == update_base_powers(
                          [rh EXCEPT !.current_hash  = h.value,
                                     !.current_bytes = <<b>> \o @])
             IN  [rh    |-> u.rh,
                  ovf   |-> shifted.ovf \/ h.ovf \/ u.ovf,
                  fault |-> u.fault]

push_front(rh, b) ==
    LET len == Len(rh.current_bytes)
    IN  IF len + 1 > Len(rh.base_powers)
        THEN [rh |-> rh, ovf |-> FALSE, fault |-> "index"]
        ELSE LET factor       == rh.base_powers[len + 1]
                 contribution == MulU64(BIG_PRIME, factor, U64(b))
                 h == Add(BIG_PRIME, rh.current_hash, contribution.value)
                 u == update_base_powers(
                          [rh EXCEPT !.current_hash  = h.value,
                                     !.current_bytes = <<b>> \o @])
             IN  [rh    |-> u.rh,
                  ovf   |-> contribution.ovf \/ h.ovf \/ u.ovf,
                  fault |-> u.fault]

RECURSIVE PushAll(_, _, _)
\* input.iter().for_each(|&c| rh.push_back(c)) from the element at index i
PushAll(r, input, i) ==
    IF i > Len(input) THEN r
    ELSE LET n == push_back(r.rh, input[i])
         IN  PushAll([rh    |-> n.rh,
                      ovf   |-> r.ovf \/ n.ovf,
                      fault |-> IF r.fault # "none" THEN r.fault
                                                    ELSE n.fault],
                     input, i + 1)

\* the elements of input in reverse order
Reversed(input) == [i \in 1..Len(input) |-> input[Len(input) + 1 - i]]

\* from_initial_bytes pushing the slice from its last element to its first
from_initial_bytes_Reversed(input) ==
    PushAll([rh |-> New, ovf |-> FALSE, fault |-> "none"], Reversed(input), 1)

from_initial_bytes(input) ==
    PushAll([rh |-> New, ovf |-> FALSE, fault |-> "none"], input, 1)

get_current_bytes(rh) == rh.current_bytes

get_current_hash(rh) == rh.current_hash

\* ------------------------------------------------------------------------
\* The state machines.  Spec: one engine made by new() and the four
\* mutations called on it in any order.  SpecBatch: an engine made by
\* from_initial_bytes from the head of a slice, then given the rest of the
\* slice by push_back.  SpecMod: a Modular made by from_u64 and one
\* operator applied to it.
\* ------------------------------------------------------------------------
VARIABLES
    current_bytes,    \* RollingHash.current_bytes, front first
    current_hash,     \* RollingHash.current_hash.value
    base_powers,      \* RollingHash.base_powers
    overflow_checks,  \* the build panics on u64 overflow (debug) or wraps
    overflowed,       \* u64 arithmetic of some call left the range of u64
    panicked,         \* "none", or the panic that ended the program
    last_call,        \* the last call made, and the window length before it
    input,            \* SpecBatch: the slice
    pos,              \* SpecBatch: how many bytes of input the engine holds
    calc              \* SpecMod: the operands and the result of the operator

vars == <<current_bytes, current_hash, base_powers, overflow_checks,
          overflowed, panicked, last_call, input, pos, calc>>

\* the engine held by the variables
Self ==
    [current_bytes |-> current_bytes,
     current_hash  |-> current_hash,
     base_powers   |-> base_powers]

Init ==
    /\ current_bytes = New.current_bytes
    /\ current_hash = New.current_hash
    /\ base_powers = New.base_powers
    /\ overflow_checks \in BOOLEAN
    /\ overflowed = FALSE
    /\ panicked = "none"
    /\ last_call = [op |-> "new", arg |-> 0, len |-> 0]
    /\ input = <<>>
    /\ pos = 0
    /\ calc = [op |-> "none"]

\* the effect of a call that returned r: a panic ends the program and the
\* engine is not used again; otherwise the fields take their new values
Call(op, arg, r) ==
    /\ panicked = "none"
    /\ last_call' = [op |-> op, arg |-> arg, len |-> Len(current_bytes)]
    /\ overflowed' = (overflowed \/ r.ovf)
    /\ UNCHANGED overflow_checks
    /\ IF r.fault # "none" \/ (r.ovf /\ overflow_checks)
       THEN /\ panicked' = IF r.fault # "none" THEN r.fault ELSE "overflow"
            /\ UNCHANGED <<current_bytes, current_hash, base_powers>>
       ELSE /\ panicked' = "none"
            /\ current_bytes' = r.rh.current_bytes
            /\ current_hash' = r.rh.current_hash
            /\ base_powers' = r.rh.base_powers

PushBack(b) ==
    /\ Len(current_bytes) < MaxLen
    /\ Call("push_back", b, push_back(Self, b))
    /\ UNCHANGED <<input, pos, calc>>

PushFront(b) ==
    /\ Len(current_bytes) < MaxLen
    /\ Call("push_front", b, push_front(Self, b))
    /\ UNCHANGED <<input, pos, calc>>

PopFront ==
    /\ Call("pop_front", 0, pop_front(Self))
    /\ UNCHANGED <<input, pos, calc>>

PopBack ==
    /\ Call("pop_back", 0, pop_back(Self))
    /\ UNCHANGED <<input, pos, calc>>

Next ==
    \/ \E b \in Bytes : PushBack(b)
    \/ \E b \in Bytes : PushFront(b)
    \/ PopFront
    \/ PopBack

Spec == Init /\ [][Next]_vars

\* the slices of at most MaxInput bytes
Inputs == UNION {[1..n -> Bytes] : n \in 0..MaxInput}

\* RollingHash::from_initial_bytes(&S[0..k]) for a slice S and a split k
InitBatch ==
    \E S \in Inputs : \E k \in 0..Len(S) :
        LET r == from_initial_bytes(SubSeq(S, 1, k))
        IN  /\ input = S
            /\ pos = k
            /\ overflow_checks \in BOOLEAN
            /\ overflowed = r.ovf
            /\ panicked = IF r.fault # "none" THEN r.fault
                          ELSE IF r.ovf /\ overflow_checks THEN "overflow"
                          ELSE "none"
            /\ current_bytes = r.rh.current_bytes
            /\ current_hash = r.rh.current_hash
            /\ base_powers = r.rh.base_powers
            /\ last_call = [op |-> "from_initial_bytes", arg |-> k, len |-> 0]
            /\ calc = [op |-> "none"]

\* push_back of the next byte of the slice
PushNext ==
    /\ pos < Len(input)
    /\ Call("push_back", input[pos + 1], push_back(Self, input[pos + 1]))
    /\ pos' = pos + 1
    /\ UNCHANGED <<input, calc>>

NextBatch == PushNext

SpecBatch == InitBatch /\ [][NextBatch]_vars

\* the const parameters MOD the operators are applied with
Moduli == {BIG_PRIME, 23}

\* the u64 an operand is taken from
RawU64 ==
    {U64(0), U64(1), U64(22), U64(BASE), U64(BIG_PRIME - 1),
     U64(BIG_PRIME + 1), <<0, 0, 0, 0, 1, 0, 0, 0>>,
     <<255, 255, 255, 255, 255, 255, 255, 255>>}

\* Modular::<m>::from_u64(n) for the left operand
InitMod ==
    \E m \in Moduli : \E n \in RawU64 :
        /\ calc = [op |-> "from_u64", mod |-> m, lhs |-> n, rhs |-> n,
                   value |-> from_u64(m, n)]
        /\ overflow_checks \in BOOLEAN
        /\ overflowed = FALSE
        /\ panicked = "none"
        /\ current_bytes = New.current_bytes
        /\ current_hash = New.current_hash
        /\ base_powers = New.base_powers
        /\ last_call = [op |-> "new", arg |-> 0, len |-> 0]
        /\ input = <<>>
        /\ pos = 0

\* the operator op applied to the Modular made by from_u64 and to rhs
\* returned r: with overflow checks an overflow is a panic and there is no
\* result, without them the wrapped result is returned
Apply(op, rhs, r) ==
    /\ calc.op = "from_u64"
    /\ panicked = "none"
    /\ overflowed' = r.ovf
    /\ panicked' = IF r.ovf /\ overflow_checks THEN "overflow" ELSE "none"
    /\ calc' = [op |-> op, mod |-> calc.mod, lhs |-> calc.value, rhs |-> rhs,
                value |-> IF r.ovf /\ overflow_checks THEN calc.value
                                                      ELSE r.value]
    /\ UNCHANGED <<current_bytes, current_hash, base_powers, overflow_checks,
                   last_call, input, pos>>

\* the Modular right operands: Modular::<MOD>::from_u64(n)
Operands(m) == {from_u64(m, n) : n \in RawU64}

ModAdd ==
    \E rhs \in Operands(calc.mod) :
        Apply("add", rhs, Add(calc.mod, calc.value, rhs))

ModAddU64 ==
    \E rhs \in RawU64 :
        Apply("add_u64", rhs, AddU64(calc.mod, calc.value, rhs))

ModSub ==
    \E rhs \in Operands(calc.mod) :
        Apply("sub", rhs, Sub(calc.mod, calc.value, rhs))

ModSubU64 ==
    \E rhs \in RawU64 :
        Apply("sub_u64", rhs, SubU64(calc.mod, calc.value, rhs))

ModMul ==
    \E rhs \in Operands(calc.mod) :
        Apply("mul", rhs, Mul(calc.mod, calc.value, rhs))

ModMulU64 ==
    \E rhs \in RawU64 :
        Apply("mul_u64", rhs, MulU64(calc.mod, calc.value, rhs))

ModDiv ==
    \E rhs \in Operands(calc.mod) :
        Apply("div", rhs, Div(calc.mod, calc.value, rhs))

ModDivU64 ==
    \E rhs \in RawU64 :
        Apply("div_u64", rhs, DivU64(calc.mod, calc.value, rhs))

NextMod ==
    \/ ModAdd
    \/ ModAddU64
    \/ ModSub
    \/ ModSubU64
    \/ ModMul
    \/ ModMulU64
    \/ ModDiv
    \/ ModDivU64

SpecMod == InitMod /\ [][NextMod]_vars

\* the exponents fast_exponentiation is called with
Exponents == 0..MaxExponent

\* a call fast_exponentiation(base, exponent) of Modular<m>, before its
\* loop: calc.l holds the locals base, exponent and result
InitExp ==
    \E m \in Moduli : \E base \in Operands(m) : \E exponent \in Exponents :
        /\ calc = [op |-> "fast_exponentiation", mod |-> m,
                   lhs |-> base, rhs |-> exponent,
                   l |-> [base |-> base, exponent |-> exponent,
                          result |-> U64(1), ovf |-> FALSE],
                   pc |-> "while", value |-> U64(0)]
        /\ overflow_checks \in BOOLEAN
        /\ overflowed = FALSE
        /\ panicked = "none"
        /\ current_bytes = New.current_bytes
        /\ current_hash = New.current_hash
        /\ base_powers = New.base_powers
        /\ last_call = [op |-> "new", arg |-> 0, len |-> 0]
        /\ input = <<>>
        /\ pos = 0

\* one pass of `while exponent != 0`; an overflow in it is a panic under
\* overflow checks
ExpIterate ==
    /\ panicked = "none"
    /\ calc.pc = "while"
    /\ calc.l.exponent # 0
    /\ LET l == ExpStep(calc.mod, calc.l)
       IN  /\ overflowed' = l.ovf
           /\ panicked' = IF l.ovf /\ overflow_checks THEN "overflow"
                                                      ELSE "none"
           /\ calc' = [calc EXCEPT !.l = l]
    /\ UNCHANGED <<current_bytes, current_hash, base_powers, overflow_checks,
                   last_call, input, pos>>

\* the loop is left with exponent = 0 and result is returned
ExpReturn ==
    /\ panicked = "none"
    /\ calc.pc = "while"
    /\ calc.l.exponent = 0
    /\ calc' = [calc EXCEPT !.pc = "done", !.value = calc.l.result]
    /\ UNCHANGED <<current_bytes, current_hash, base_powers, overflow_checks,
                   overflowed, panicked, last_call, input, pos>>

NextExp ==
    \/ ExpIterate
    \/ ExpReturn

\* the call keeps running until it returns
SpecExp == InitExp /\ [][NextExp]_vars /\ WF_vars(NextExp)

\* ------------------------------------------------------------------------
\* The polynomial encoding, computed on integers without the engine:
\* sum of window[i] * BASE^(len-1-i) mod MOD, front at i = 0
\* ------------------------------------------------------------------------
RECURSIVE MulMod(_, _, _)
\* a * b mod m by doubling, for a < m <= 2^30
MulMod(a, b, m) ==
    IF b = 0 THEN 0
    ELSE LET h == MulMod(a, b \div 2, m)
             d == (2 * h) % m
         IN  IF b % 2 = 1 THEN (d + a) % m ELSE d

RECURSIVE PowMod(_, _, _)
PowMod(a, k, m) == IF k = 0 THEN 1 % m ELSE MulMod(PowMod(a, k - 1, m), a, m)

RECURSIVE PolyFrom(_, _)
\* the terms of the elements i..Len(window), summed mod BIG_PRIME
PolyFrom(window, i) ==
    IF i > Len(window) THEN 0
    ELSE (MulMod(PowMod(BASE, Len(window) - i, BIG_PRIME), window[i],
                 BIG_PRIME)
          + PolyFrom(window, i + 1)) % BIG_PRIME

Polynomial(window) == PolyFrom(window, 1)

\* ------------------------------------------------------------------------
\* Claims
\* ------------------------------------------------------------------------

\* C1: after any sequence of push_back, push_front, pop_back and pop_front
\* from new(), current_hash is the sum of window[i] * BASE^(len-1-i) mod MOD
\* over the current window.
C1_HashIsPolynomial ==
    panicked = "none" => current_hash = U64(Polynomial(current_bytes))

\* a pop_back has produced the hash of a window of two bytes led by a
\* nonzero byte, so a division and a term of weight BASE are involved
C1_Witness ==
    /\ panicked = "none"
    /\ last_call.op = "pop_back"
    /\ Len(current_bytes) = 2
    /\ current_bytes[1] # 0
    /\ current_hash = U64(Polynomial(current_bytes))

\* C2: the hash depends only on the window, not on the history: after any
\* sequence of the four mutations, get_current_hash() equals the hash of a
\* fresh engine built by from_initial_bytes(get_current_bytes()).
C2_HashOfWindowOnly ==
    panicked = "none" =>
        get_current_hash(Self) =
            get_current_hash(from_initial_bytes(get_current_bytes(Self)).rh)

\* a push_back made after pops (the power table is longer than the window
\* needs) gave a window of two bytes the nonzero hash of the fresh engine
C2_Witness ==
    /\ panicked = "none"
    /\ last_call.op = "push_back"
    /\ Len(current_bytes) = 2
    /\ Len(base_powers) > Len(current_bytes) + 1
    /\ current_hash # U64(0)
    /\ current_hash = from_initial_bytes(current_bytes).rh.current_hash

\* the call op, made on the engine rh without a panic in either build,
\* leaves the window and the hash of the engine h
Restores(r, h) ==
    /\ r.fault = "none"
    /\ ~r.ovf
    /\ r.rh.current_bytes = h.current_bytes
    /\ r.rh.current_hash = h.current_hash

\* C3: for every reachable state H and every byte x, push_back(x) then
\* pop_back, and push_front(x) then pop_front, leave the window and the
\* hash of H.
C3_PushPopInverse ==
    panicked = "none" =>
        \A x \in Bytes :
            /\ Restores(pop_back(push_back(Self, x).rh), Self)
            /\ Restores(pop_front(push_front(Self, x).rh), Self)

\* a window of two bytes with a nonzero hash, on which both round trips of
\* the byte 255 give back the window and the hash
C3_Witness ==
    /\ panicked = "none"
    /\ Len(current_bytes) = 2
    /\ current_hash # U64(0)
    /\ Restores(pop_back(push_back(Self, 255).rh), Self)
    /\ Restores(pop_front(push_front(Self, 255).rh), Self)

\* C4: pop_front and pop_back called on an empty window do not fail and
\* leave the window (length 0), the hash (0) and the power table unchanged.
C4_PopOnEmptyIsNoOp ==
    [][(/\ current_bytes = <<>>
        /\ last_call'.op \in {"pop_front", "pop_back"})
       => (/\ panicked' = "none"
           /\ current_bytes' = <<>>
           /\ current_hash' = U64(0)
           /\ current_hash' = current_hash
           /\ base_powers' = base_powers)]_vars

\* a pop_back has been called on a window that was empty, with a power
\* table that earlier pushes had grown to three entries
C4_Witness ==
    /\ panicked = "none"
    /\ last_call.op = "pop_back"
    /\ last_call.len = 0
    /\ current_bytes = <<>>
    /\ current_hash = U64(0)
    /\ Len(base_powers) = 3

\* C5: from every state reachable from new(), each of the four mutations
\* completes without a panic: no index out of bounds, no unwrap of None,
\* no underflow of a subtraction (a panic under overflow checks, a wrapped
\* difference without them).
C5_NoPanic ==
    panicked = "none" /\ ~overflowed

\* under overflow checks a pop_front has completed on a window of three
\* bytes whose front byte is not 0, so the subtraction was a real one
C5_Witness ==
    /\ panicked = "none"
    /\ overflow_checks
    /\ last_call.op = "pop_front"
    /\ last_call.len = 3
    /\ current_hash # U64(0)

\* C6: in every reachable state base_powers.len() >= current_bytes.len() + 1,
\* so base_powers[current_bytes.len()] is a valid index for push_front.
C6_PowersCoverWindow ==
    Len(base_powers) >= Len(current_bytes) + 1

\* a push_front has grown the power table to exactly the window length + 1
C6_Witness ==
    /\ panicked = "none"
    /\ last_call.op = "push_front"
    /\ Len(current_bytes) = 3
    /\ Len(base_powers) = Len(current_bytes) + 1

\* C7: whenever the window is empty the hash is 0; in particular
\* push_back(x) then pop_front on an empty engine gives hash 0 for every x.
C7_EmptyHashIsZero ==
    (panicked = "none" /\ current_bytes = <<>>) =>
        /\ get_current_hash(Self) = U64(0)
        /\ \A x \in Bytes :
               get_current_hash(pop_front(push_back(Self, x).rh).rh) = U64(0)

\* a pop_front has emptied a window of one byte and the hash is 0
C7_Witness ==
    /\ panicked = "none"
    /\ last_call.op = "pop_front"
    /\ last_call.len = 1
    /\ current_bytes = <<>>
    /\ current_hash = U64(0)

\* C8: an engine built by from_initial_bytes(S[0..k]) and then given the
\* elements of S[k..] by push_back has the window and the hash of
\* from_initial_bytes of what it has been given, for every S and k (k = 0:
\* new() followed by the push_backs).  Specification SpecBatch.
C8_IncrementalIsBatch ==
    /\ panicked = "none"
    /\ get_current_bytes(Self) =
           get_current_bytes(from_initial_bytes(SubSeq(input, 1, pos)).rh)
    /\ get_current_hash(Self) =
           get_current_hash(from_initial_bytes(SubSeq(input, 1, pos)).rh)

\* the last byte of a slice of three bytes that is no palindrome has been
\* given by push_back, and the engine is from_initial_bytes of the slice
C8_Witness ==
    /\ panicked = "none"
    /\ last_call.op = "push_back"
    /\ Len(input) = 3
    /\ pos = Len(input)
    /\ input[1] # input[3]
    /\ current_bytes = from_initial_bytes(input).rh.current_bytes
    /\ current_hash = from_initial_bytes(input).rh.current_hash

\* C9: in every reachable state no sum or product of u64 formed by any of
\* the four mutations reaches 2^64: neither the calls made so far nor any
\* call that can be made next wraps around.
C9_NoWraparound ==
    /\ ~overflowed
    /\ panicked = "none" =>
           /\ ~pop_back(Self).ovf
           /\ ~pop_front(Self).ovf
           /\ \A b \in Bytes : ~push_back(Self, b).ovf /\ ~push_front(Self, b).ovf

\* in a build without overflow checks, a window of three bytes 255 (the
\* largest terms) has been reached and a pop_back on it does not wrap
C9_Witness ==
    /\ ~overflow_checks
    /\ ~overflowed
    /\ current_bytes = <<255, 255, 255>>
    /\ ~pop_back(Self).ovf

\* v is a residue of the modulus m: 0 <= v < m
IsResidue(v, m) == WGreater(U64(m), v)

\* C10: for every left operand with 0 <= value < MOD and every right
\* operand an operator accepts (a Modular, or a raw u64 for the u64
\* overloads), add, sub, mul and div return a value v with 0 <= v < MOD
\* and no u64 operation inside them leaves the range of u64.
\* Specification SpecMod.
C10_ModularClosed ==
    (calc.op \notin {"none", "from_u64"} /\ IsResidue(calc.lhs, calc.mod)) =>
        /\ panicked = "none"
        /\ ~overflowed
        /\ IsResidue(calc.value, calc.mod)

\* the integer held by a u64 below 2^31
ToInt(w) ==
    w[1] + Radix * w[2] + Radix * Radix * w[3] + Radix * Radix * Radix * w[4]

\* C11: for a prime MOD, every modular value a and every divisor b whose
\* residue is not zero, (a / b) * b == a, for the Modular divisor and for
\* the raw u64 divisor.  Specification SpecMod (both moduli are prime).
C11_DivInvertsMul ==
    /\ (calc.op = "div" /\ calc.rhs # U64(0)) =>
           /\ panicked = "none"
           /\ Mul(calc.mod, calc.value, calc.rhs).value = calc.lhs
    /\ (calc.op = "div_u64" /\ from_u64(calc.mod, calc.rhs) # U64(0)) =>
           /\ panicked = "none"
           /\ MulU64(calc.mod, calc.value, calc.rhs).value = calc.lhs

\* C12: for Modular operands a and b with residues in [0, MOD), a + b is
\* (a.value + b.value) mod MOD, a - b is the non-negative representative of
\* (a.value - b.value) mod MOD, and a * b is (a.value * b.value) mod MOD,
\* each computed here on integers.  Specification SpecMod.
C12_AddSubMulResidues ==
    /\ calc.op \in {"add", "sub", "mul"} =>
           /\ panicked = "none"
           /\ ~overflowed
    /\ calc.op = "add" =>
           calc.value = U64((ToInt(calc.lhs) + ToInt(calc.rhs)) % calc.mod)
    /\ calc.op = "sub" =>
           calc.value = U64((ToInt(calc.lhs) - ToInt(calc.rhs)) % calc.mod)
    /\ calc.op = "mul" =>
           calc.value = U64(MulMod(ToInt(calc.lhs), ToInt(calc.rhs), calc.mod))

\* MOD - 1 has been subtracted from a smaller residue of BIG_PRIME, so the
\* branch adding MOD was taken, and the difference is the residue expected
C12_Witness ==
    /\ panicked = "none"
    /\ calc.op = "sub"
    /\ calc.mod = BIG_PRIME
    /\ calc.rhs = U64(BIG_PRIME - 1)
    /\ calc.lhs = U64(BASE)
    /\ calc.value = U64(BASE + 1)

\* C13: in every reachable state base_powers[k] is BASE^k mod MOD for every
\* index k of the table (base_powers[0] = 1); index k of the code is k + 1
\* here.
C13_PowersAreBasePowers ==
    \A k \in 1..Len(base_powers) :
        base_powers[k] = U64(PowMod(BASE, k - 1, BIG_PRIME))

\* pushes have grown the table to four entries, the last one BASE^3
C13_Witness ==
    /\ panicked = "none"
    /\ Len(base_powers) = 4
    /\ base_powers[1] = U64(1)
    /\ base_powers[4] = U64(PowMod(BASE, 3, BIG_PRIME))

\* C14: every operation leaves the entries base_powers already had as they
\* were and never shortens the table; pop_front and pop_back leave the
\* table entirely unchanged.
C14_PowersAppendOnly ==
    [][/\ Len(base_powers') >= Len(base_powers)
       /\ SubSeq(base_powers', 1, Len(base_powers)) = base_powers
       /\ last_call'.op \in {"pop_front", "pop_back"}
              => base_powers' = base_powers]_vars

\* a pop_back has shortened a window of three bytes and the table still
\* has its four entries
C14_Witness ==
    /\ panicked = "none"
    /\ last_call.op = "pop_back"
    /\ last_call.len = 3
    /\ Len(current_bytes) = 2
    /\ Len(base_powers) = 4

\* C15: a push_back or push_front call appends at most one entry to
\* base_powers, and none when the new window length is still below the
\* length the table had.
C15_OneAppendPerPush ==
    [][(last_call'.op \in {"push_back", "push_front"} /\ panicked' = "none")
       => /\ Len(base_powers') <= Len(base_powers) + 1
          /\ Len(current_bytes') < Len(base_powers)
                 => Len(base_powers') = Len(base_powers)]_vars

\* a push_back made after pops found the table long enough and appended
\* nothing: the table is longer than the window needs
C15_Witness ==
    /\ panicked = "none"
    /\ last_call.op = "push_back"
    /\ Len(current_bytes) = 2
    /\ Len(base_powers) = 4

\* C16: the window is a double-ended sequence: push_back appends its byte
\* at the end, push_front puts it at the front, pop_front drops the first
\* element and pop_back the last (an empty window stays empty), as
\* get_current_bytes() shows it.
C16_WindowIsDeque ==
    [][panicked' = "none" =>
        LET before == get_current_bytes(Self)
            after  == get_current_bytes(Self')
        IN  /\ last_call'.op = "push_back" =>
                   after = Append(before, last_call'.arg)
            /\ last_call'.op = "push_front" =>
                   after = <<last_call'.arg>> \o before
            /\ last_call'.op = "pop_front" =>
                   after = IF before = <<>> THEN <<>> ELSE Tail(before)
            /\ last_call'.op = "pop_back" =>
                   after = IF before = <<>> THEN <<>>
                           ELSE SubSeq(before, 1, Len(before) - 1)]_vars

\* a push_front has put its byte at the front of a window of three bytes
\* whose last byte is another one
C16_Witness ==
    /\ panicked = "none"
    /\ last_call.op = "push_front"
    /\ Len(current_bytes) = 3
    /\ current_bytes[1] = last_call.arg
    /\ current_bytes[3] # last_call.arg

\* C17 as stated: for any byte b, push_back(b) on an empty engine makes the
\* hash differ from the hash before the push.
C17_HashChangesWithPush ==
    [][(/\ last_call'.op = "push_back"
        /\ current_bytes = <<>>
        /\ panicked' = "none")
       => current_hash' # current_hash]_vars

\* C17 amended: push_back(b) on an empty engine makes the hash b, so the
\* hash differs from the hash before (0) exactly when b is not 0.
C17_HashChangesUnlessZero ==
    [][(/\ last_call'.op = "push_back"
        /\ current_bytes = <<>>
        /\ panicked' = "none")
       => /\ current_hash' = U64(last_call'.arg)
          /\ (current_hash' # current_hash) <=> (last_call'.arg # 0)]_vars

\* push_back(0) has been called on an empty window and the hash is still 0
C17_Witness ==
    /\ panicked = "none"
    /\ last_call.op = "push_back"
    /\ last_call.len = 0
    /\ last_call.arg = 0
    /\ current_bytes = <<0>>
    /\ current_hash = U64(0)

\* C18: in every reachable state push_front(0) leaves the hash unchanged
\* and lengthens the window by one, and pop_front of a front byte 0 leaves
\* the hash unchanged.
C18_LeadingZerosInvisible ==
    panicked = "none" =>
        /\ push_front(Self, 0).fault = "none"
        /\ ~push_front(Self, 0).ovf
        /\ get_current_hash(push_front(Self, 0).rh) = get_current_hash(Self)
        /\ Len(push_front(Self, 0).rh.current_bytes) = Len(current_bytes) + 1
        /\ (current_bytes # <<>> /\ Head(current_bytes) = 0) =>
               /\ pop_front(Self).fault = "none"
               /\ ~pop_front(Self).ovf
               /\ get_current_hash(pop_front(Self).rh) = get_current_hash(Self)

\* push_front(0) has been called on a window of two bytes with a nonzero
\* hash, and a pop_front of that 0 gives the same hash again
C18_Witness ==
    /\ panicked = "none"
    /\ last_call.op = "push_front"
    /\ last_call.arg = 0
    /\ Len(current_bytes) = 3
    /\ current_hash # U64(0)
    /\ current_hash = from_initial_bytes(Tail(current_bytes)).rh.current_hash
    /\ pop_front(Self).rh.current_hash = current_hash

RECURSIVE PowerRef(_, _, _)
\* a^k mod m by k multiplications, for a < m <= 2^30
PowerRef(a, k, m) ==
    IF k = 0 THEN 1 % m ELSE MulMod(a, PowerRef(a, k - 1, m), m)

\* C19: fast_exponentiation(base, exponent) terminates and returns
\* base^exponent mod MOD for every base in [0, MOD) and every exponent
\* (1 for exponent 0), a value in [0, MOD) when MOD > 1.  Termination is
\* stated by a variant: no pass of the loop panics, every pass leaves a
\* smaller exponent >= 0, so every call that keeps running (SpecExp)
\* reaches exponent = 0 and returns; what it returns is that power.
\* Specification SpecExp.
C19_FastExponentiation ==
    [][/\ panicked' = "none"
       /\ calc'.pc = "while" =>
              /\ calc'.l.exponent < calc.l.exponent
              /\ calc'.l.exponent >= 0
       /\ calc'.pc = "done" =>
              /\ calc.l.exponent = 0
              /\ calc'.value =
                     IF calc.rhs = 0 THEN U64(1)
                     ELSE U64(PowerRef(ToInt(calc.lhs), calc.rhs, calc.mod))
              /\ calc.mod > 1 => IsResidue(calc'.value, calc.mod)]_vars

\* the call fast_exponentiation(257, 4) of Modular<BIG_PRIME> has returned
\* 362470373, the value tests::fast_exponentiation_works expects
C19_Witness ==
    /\ panicked = "none"
    /\ calc.pc = "done"
    /\ calc.mod = BIG_PRIME
    /\ calc.lhs = U64(BASE)
    /\ calc.rhs = 4
    /\ calc.value = U64(362470373)

====
